---- MODULE Spec2Model ----
(***************************************************************************)
(* The MCP-Tavily dashboard (src/app.js) as a state machine: the AppState  *)
(* record, the data fetch functions with their mock fallback, the section  *)
(* refresh functions, the interval timer behind auto-refresh and the       *)
(* settings listeners.  One action is one task of the browser's event      *)
(* loop: a user event, a timer tick, or the arrival of a network response  *)
(* together with the promise continuations it releases.                    *)
(***************************************************************************)
EXTENDS Naturals, Integers, Sequences, FiniteSets, Bags, TLC

\* ------------------------------------------------------------------ bounds

\* Timer ids the browser may hand out while they are still referenced.
MaxTimers == 3
\* Dispatch cycles whose network request is still pending.
MaxInFlight == 2
\* Health probes whose network request is still pending.
MaxProbes == 2

\* ------------------------------------------------------- program constants

\* AppState.refreshRate as constructed.
DefaultRefreshRate == 5000

\* AppState.apiEndpoint as constructed, and one other base URL a user types.
DefaultEndpoint == "http://localhost:8000"
OtherEndpoint == "http://other:9000"
Endpoints == {DefaultEndpoint, OtherEndpoint}

\* The sections of the page; "settings" has no case in refreshCurrentSection.
Sections == {"dashboard", "health", "connections", "tools", "logs", "settings"}
RefreshFns == Sections \ {"settings"}

\* The values of the refresh-rate <select>, as the decimal digits of their text.
RateOptions == {<<1, 0, 0, 0>>, <<5, 0, 0, 0>>}

\* ------------------------------------------------------------------- data

\* A value that is null, [] or a JSON array is a sequence of records; a
\* MetricsSnapshot is the one-element sequence holding it, null is << >>.
Null == << >>

MockData ==
  [ metrics |->
      << [ server_status |-> "online", total_requests |-> 2843,
           successful_requests |-> 2756, failed_requests |-> 87 ] >>,
    connections |->
      << [ id |-> "conn_001", duration_seconds |-> 3600, status |-> "connected" ],
         [ id |-> "conn_002", duration_seconds |-> 1800, status |-> "disconnected" ],
         [ id |-> "conn_003", duration_seconds |-> 900, status |-> "connected" ] >>,
    tools |->
      << [ name |-> "tavily-search", call_count |-> 1203, success_rate |-> 992 ],
         [ name |-> "web-scrape", call_count |-> 542, success_rate |-> 978 ] >>,
    logs |->
      << [ level |-> "INFO", message |-> "New connection established: conn_003" ],
         [ level |-> "INFO", message |-> "Tool execution: tavily-search (215ms)" ],
         [ level |-> "WARNING", message |-> "High response time detected: 1200ms" ],
         [ level |-> "INFO", message |-> "Redis ping successful (2ms)" ] >> ]

\* What a backend may answer with a success status and a JSON body.  The code
\* hands the parsed body on as it is, whatever it holds: the metrics body is
\* one whose request counts do not add up.
LiveBodies ==
  [ metrics |->
      { << [ server_status |-> "online", total_requests |-> 5,
             successful_requests |-> 4, failed_requests |-> 3 ] >> },
    connections |->
      { << [ id |-> "conn_101", duration_seconds |-> 125, status |-> "connected" ] >> },
    tools |->
      { << [ name |-> "b", call_count |-> 5, success_rate |-> 1000 ],
           [ name |-> "a", call_count |-> 10, success_rate |-> 900 ] >> },
    logs |->
      { << [ level |-> "ERROR", message |-> "Upstream timeout" ] >> },
    health |->
      { << [ status |-> "healthy" ] >> } ]

\* The resource a refresh function fetches (fetchMetrics for both dashboard
\* and health).
KindOf(fn) ==
  CASE fn = "dashboard" -> "metrics"
    [] fn = "health" -> "metrics"
    [] fn = "connections" -> "connections"
    [] fn = "tools" -> "tools"
    [] fn = "logs" -> "logs"

\* What the network does with one request: the transport fails, or a
\* response arrives with a status and a body that parses as JSON or not.
Responses(kind) ==
  { [ net |-> FALSE, ok |-> FALSE, json |-> FALSE, body |-> Null ],
    [ net |-> TRUE, ok |-> FALSE, json |-> FALSE, body |-> Null ],
    [ net |-> TRUE, ok |-> TRUE, json |-> FALSE, body |-> Null ] }
  \cup { [ net |-> TRUE, ok |-> TRUE, json |-> TRUE, body |-> b ] : b \in LiveBodies[kind] }

\* parseInt of a string of decimal digits.
RECURSIVE parseInt(_)
parseInt(ds) ==
  IF ds = << >> THEN 0
  ELSE 10 * parseInt(SubSeq(ds, 1, Len(ds) - 1)) + ds[Len(ds)]

\* ----------------------------------------------------------------- strings

\* The characters of the strings the model uses as log messages, tool names
\* and search terms: a string is compared as a whole, searched and collated
\* through its characters.
Chars ==
  ("" :> << >>) @@
  ("response" :> << "r", "e", "s", "p", "o", "n", "s", "e" >>) @@
  ("RESPONSE" :> << "R", "E", "S", "P", "O", "N", "S", "E" >>) @@
  ("redis" :> << "r", "e", "d", "i", "s" >>) @@
  ("time" :> << "t", "i", "m", "e" >>) @@
  ("xyz" :> << "x", "y", "z" >>) @@
  ("New connection established: conn_003" :> << "N", "e", "w", " ", "c", "o", "n", "n", "e", "c", "t", "i", "o", "n", " ", "e", "s", "t", "a", "b", "l", "i", "s", "h", "e", "d", ":", " ", "c", "o", "n", "n", "_", "0", "0", "3" >>) @@
  ("Tool execution: tavily-search (215ms)" :> << "T", "o", "o", "l", " ", "e", "x", "e", "c", "u", "t", "i", "o", "n", ":", " ", "t", "a", "v", "i", "l", "y", "-", "s", "e", "a", "r", "c", "h", " ", "(", "2", "1", "5", "m", "s", ")" >>) @@
  ("High response time detected: 1200ms" :> << "H", "i", "g", "h", " ", "r", "e", "s", "p", "o", "n", "s", "e", " ", "t", "i", "m", "e", " ", "d", "e", "t", "e", "c", "t", "e", "d", ":", " ", "1", "2", "0", "0", "m", "s" >>) @@
  ("Redis ping successful (2ms)" :> << "R", "e", "d", "i", "s", " ", "p", "i", "n", "g", " ", "s", "u", "c", "c", "e", "s", "s", "f", "u", "l", " ", "(", "2", "m", "s", ")" >>) @@
  ("Upstream timeout" :> << "U", "p", "s", "t", "r", "e", "a", "m", " ", "t", "i", "m", "e", "o", "u", "t" >>) @@
  ("tavily-search" :> << "t", "a", "v", "i", "l", "y", "-", "s", "e", "a", "r", "c", "h" >>) @@
  ("web-scrape" :> << "w", "e", "b", "-", "s", "c", "r", "a", "p", "e" >>) @@
  ("a" :> << "a" >>) @@
  ("b" :> << "b" >>) @@
  ("B" :> << "B" >>)

\* String.prototype.toLowerCase on the letters A to Z.
UpperToLower ==
  [ A |-> "a", B |-> "b", C |-> "c", D |-> "d", E |-> "e", F |-> "f", G |-> "g",
    H |-> "h", I |-> "i", J |-> "j", K |-> "k", L |-> "l", M |-> "m", N |-> "n",
    O |-> "o", P |-> "p", Q |-> "q", R |-> "r", S |-> "s", T |-> "t", U |-> "u",
    V |-> "v", W |-> "w", X |-> "x", Y |-> "y", Z |-> "z" ]

toLowerCase(chars) ==
  [ i \in 1 .. Len(chars) |->
      IF chars[i] \in DOMAIN UpperToLower THEN UpperToLower[chars[i]] ELSE chars[i] ]

\* String.prototype.includes: needle occurs in hay as a contiguous run.
includes(hay, needle) ==
  \E i \in 0 .. Len(hay) :
    /\ i + Len(needle) <= Len(hay)
    /\ SubSeq(hay, i + 1, i + Len(needle)) = needle

\* The order of the default collation on hyphen, digits and letters: a
\* letter's case is looked at only when everything else is equal.
Collation ==
  << "-", "0", "1", "2", "3", "4", "5", "6", "7", "8", "9",
     "a", "b", "c", "d", "e", "f", "g", "h", "i", "j", "k", "l", "m",
     "n", "o", "p", "q", "r", "s", "t", "u", "v", "w", "x", "y", "z" >>

Rank(c) == CHOOSE i \in 1 .. Len(Collation) : Collation[i] = toLowerCase(<<c>>)[1]

Sign(n) == IF n < 0 THEN 0 - 1 ELSE IF n > 0 THEN 1 ELSE 0

\* String.prototype.localeCompare on two such strings: negative, zero or
\* positive.  Letters are compared without their case first, a proper prefix
\* comes first, and of two strings that differ in case only the one with the
\* lower-case letter at the first difference comes first.
localeCompare(a, b) ==
  LET common == IF Len(a) < Len(b) THEN Len(a) ELSE Len(b)
      primary == { i \in 1 .. common : Rank(a[i]) # Rank(b[i]) }
      tertiary == { i \in 1 .. common : a[i] # b[i] }
      first(S) == CHOOSE i \in S : \A j \in S : i <= j
  IN IF primary # {}
       THEN Sign(Rank(a[first(primary)]) - Rank(b[first(primary)]))
     ELSE IF Len(a) # Len(b) THEN Sign(Len(a) - Len(b))
     ELSE IF tertiary # {}
       THEN IF a[first(tertiary)] \in DOMAIN UpperToLower THEN 1 ELSE 0 - 1
     ELSE 0

\* A number as a template literal prints it: its decimal digits.
Digit == << "0", "1", "2", "3", "4", "5", "6", "7", "8", "9" >>

RECURSIVE NumberToString(_)
NumberToString(n) ==
  IF n < 10 THEN << Digit[n + 1] >>
  ELSE NumberToString(n \div 10) \o << Digit[(n % 10) + 1] >>

\* ------------------------------------------------------------- render sinks

\* formatDuration with the minutes taken from all of the seconds.
formatDuration_WholeMinutes(seconds) ==
  LET hours == seconds \div 3600
      minutes == seconds \div 60
      secs == seconds % 60
  IN IF hours > 0
       THEN NumberToString(hours) \o << "h", " " >> \o NumberToString(minutes) \o << "m" >>
     ELSE IF minutes > 0
       THEN NumberToString(minutes) \o << "m", " " >> \o NumberToString(secs) \o << "s" >>
     ELSE NumberToString(secs) \o << "s" >>

\* formatDuration(seconds), its result as the characters of the string.
formatDuration(seconds) ==
  LET hours == seconds \div 3600
      minutes == (seconds % 3600) \div 60
      secs == seconds % 60
  IN IF hours > 0
       THEN NumberToString(hours) \o << "h", " " >> \o NumberToString(minutes) \o << "m" >>
     ELSE IF minutes > 0
       THEN NumberToString(minutes) \o << "m", " " >> \o NumberToString(secs) \o << "s" >>
     ELSE NumberToString(secs) \o << "s" >>

\* filteredConnections with every status passing.
filteredConnections_NoFilter(connections, filter) == connections

\* updateConnectionsTable, the rows: the connections whose status is the
\* filter's value, or all of them under 'all'.
filteredConnections(connections, filter) ==
  IF filter # "all"
    THEN SelectSeq(connections, LAMBDA conn : conn.status = filter)
    ELSE connections

\* updateConnectionsTable(connections) under the select's value: the rows it
\* writes and the duration cell of each.
updateConnectionsTable(connections, filter) ==
  LET rows == filteredConnections(connections, filter) IN
  [ shown |-> rows,
    durations |-> [ i \in 1 .. Len(rows) |-> formatDuration(rows[i].duration_seconds) ] ]

\* compare with the numeric keys ascending.
compare_Ascending(sortBy, a, b) ==
  CASE sortBy = "calls" -> a.call_count - b.call_count
    [] sortBy = "name" -> localeCompare(Chars[a.name], Chars[b.name])
    [] sortBy = "success" -> a.success_rate - b.success_rate

\* The comparison function updateToolsGrid hands to sort for each key.
compare(sortBy, a, b) ==
  CASE sortBy = "calls" -> b.call_count - a.call_count
    [] sortBy = "name" -> localeCompare(Chars[a.name], Chars[b.name])
    [] sortBy = "success" -> b.success_rate - a.success_rate

\* Array.prototype.sort with that comparison function: a stable sort, here
\* by inserting each element behind everything that does not come after it.
RECURSIVE sort(_, _)
sort(array, sortBy) ==
  IF array = << >> THEN << >>
  ELSE LET n == Len(array)
           front == sort(SubSeq(array, 1, n - 1), sortBy)
           x == array[n]
           after == { i \in 1 .. n - 1 : compare(sortBy, front[i], x) > 0 }
           pos == IF after = {} THEN n ELSE CHOOSE i \in after : \A j \in after : i <= j
       IN SubSeq(front, 1, pos - 1) \o << x >> \o SubSeq(front, pos, n - 1)

\* updateToolsGrid sorting the array it was handed instead of a copy.
updateToolsGrid_InPlace(tools, sortBy) ==
  LET sortedTools == IF sortBy \in {"calls", "name", "success"}
                       THEN sort(tools, sortBy) ELSE tools
  IN [ shown |-> sortedTools, tools |-> sortedTools ]

\* updateToolsGrid(tools) under the select's value: the cards it writes, and
\* the array it was handed as the call leaves it.  [...tools] is a copy and
\* a value without a case in the switch leaves the copy as it is.
updateToolsGrid(tools, sortBy) ==
  LET sortedTools == IF sortBy \in {"calls", "name", "success"}
                       THEN sort(tools, sortBy) ELSE tools
  IN [ shown |-> sortedTools, tools |-> tools ]

\* updateLogsContainer comparing the message as it is written.
updateLogsContainer_CaseSensitive(logs, levelFilter, search) ==
  LET searchTerm == toLowerCase(Chars[search])
      byLevel == IF levelFilter # "all"
                   THEN SelectSeq(logs, LAMBDA log : log.level = levelFilter)
                   ELSE logs
  IN IF searchTerm # << >>
       THEN SelectSeq(byLevel, LAMBDA log : includes(Chars[log.message], searchTerm))
       ELSE byLevel

\* updateLogsContainer(logs) under the level select's value and the search
\* input's value: the entries it writes.
updateLogsContainer(logs, levelFilter, search) ==
  LET searchTerm == toLowerCase(Chars[search])
      byLevel == IF levelFilter # "all"
                   THEN SelectSeq(logs, LAMBDA log : log.level = levelFilter)
                   ELSE logs
  IN IF searchTerm # << >>
       THEN SelectSeq(byLevel, LAMBDA log :
                        includes(toLowerCase(Chars[log.message]), searchTerm))
       ELSE byLevel

\* ------------------------------------------------------------------ state

VARIABLES
  pc,               \* "boot" before initializeApp has run, "ready" after
  apiEndpoint,      \* AppState.apiEndpoint
  refreshRate,      \* AppState.refreshRate
  autoRefresh,      \* AppState.autoRefresh
  demoMode,         \* AppState.demoMode
  currentSection,   \* AppState.currentSection
  refreshInterval,  \* AppState.refreshInterval: 0 is null, else a timer id
  lastUpdate,       \* AppState.lastUpdate: "null" or "date", some Date
  metricsData,      \* AppState.metricsData
  connectionsData,  \* AppState.connectionsData
  toolsData,        \* AppState.toolsData
  logsData,         \* AppState.logsData
  timers,           \* the browser's live interval timers
  inflight,         \* the bag of refresh functions suspended at their await of a request
  probes,           \* testConnection handlers suspended at await checkHealth()
  connectionFilter, \* the value of the connectionFilter select
  toolsSortBy,      \* the value of the toolsSortBy select
  logLevelFilter,   \* the value of the logLevelFilter select
  logSearch,        \* the value of the logSearch input
  verified,         \* history: the endpoints a probe of which has returned success
  ev                \* what the last task of the event loop did

cache == <<metricsData, connectionsData, toolsData, logsData>>
config == <<apiEndpoint, refreshRate, autoRefresh, demoMode, currentSection>>
filters == <<connectionFilter, toolsSortBy, logLevelFilter, logSearch>>
vars == <<pc, config, refreshInterval, lastUpdate, cache, timers, inflight, probes,
          filters, verified, ev>>

\* The record of a task that did nothing yet; each action fills in its part.
NoEvent ==
  [ op |-> "none",        \* the handler that ran
    fn |-> "none",        \* the refresh function it entered, if any
    demo |-> FALSE,       \* demoMode as the fetch function read it
    issued |-> {},        \* network requests sent by this task
    completed |-> FALSE,  \* a refresh function ran to its end in this task
    response |-> << >>,   \* the network's answer that resumed it, if any
    returned |-> Null,    \* what the fetch function returned
    fetchThrew |-> FALSE, \* the fetch function rejected instead
    stored |-> FALSE,     \* the cache entry was written
    rendered |-> FALSE,   \* the render sink was called
    sinkThrew |-> FALSE,  \* the render sink threw
    propagated |-> FALSE, \* the refresh function rejected to its caller
    updated |-> FALSE,    \* updateLastUpdate ran
    probe |-> << >>,      \* what checkHealth returned to testConnection
    shown |-> << >>,      \* the entries a filter or sort listener rendered
    durations |-> << >>,  \* the duration cell of each connection row it rendered
    scheduledIn |-> "none", \* for a tick: the section current when its timer was set
    before |-> FALSE ]    \* autoRefresh before the task

Init ==
  /\ pc = "boot"
  /\ apiEndpoint = DefaultEndpoint
  /\ refreshRate = DefaultRefreshRate
  /\ autoRefresh = TRUE
  /\ demoMode = TRUE
  /\ currentSection = "dashboard"
  /\ refreshInterval = 0
  /\ lastUpdate = "null"
  /\ metricsData = Null
  /\ connectionsData = << >>
  /\ toolsData = << >>
  /\ logsData = << >>
  /\ timers = {}
  /\ inflight = EmptyBag
  /\ probes = << >>
  /\ connectionFilter = "all"
  /\ toolsSortBy = "calls"
  /\ logLevelFilter = "all"
  /\ logSearch = ""
  /\ verified = {}
  /\ ev = NoEvent

\* ------------------------------------------------------------ API functions

\* fetchStart with the demoMode test left out.
fetchStart_IgnoreDemo(kind, demo) ==
  [ suspended |-> TRUE, returned |-> Null,
    issued |-> { [ kind |-> kind, endpoint |-> apiEndpoint ] } ]

\* fetchMetrics / fetchConnections / fetchTools / fetchLogs up to their first
\* suspension: in demo mode the mock value is returned at once, otherwise one
\* request goes to the configured endpoint and the function waits for it.
fetchStart(kind, demo) ==
  IF demo
    THEN [ suspended |-> FALSE, returned |-> MockData[kind], issued |-> {} ]
    ELSE [ suspended |-> TRUE, returned |-> Null,
           issued |-> { [ kind |-> kind, endpoint |-> apiEndpoint ] } ]

\* fetchResume without its try/catch: a failure rejects.
fetchResume_NoCatch(kind, r) ==
  IF r.net /\ r.ok /\ r.json
    THEN [ threw |-> FALSE, value |-> r.body ]
    ELSE [ threw |-> TRUE, value |-> Null ]

\* The same functions from the network's answer r on: the try block returns
\* the parsed body of a success response; a transport failure, the Error
\* thrown on !response.ok and a rejected response.json() all end in the catch
\* block, which returns the mock value.
fetchResume(kind, r) ==
  IF r.net /\ r.ok /\ r.json
    THEN [ threw |-> FALSE, value |-> r.body ]
    ELSE [ threw |-> FALSE, value |-> MockData[kind] ]

\* checkHealth falling back to mock data as the fetch functions do.
checkHealth_MockFallback(r, lat) ==
  IF r.net /\ r.ok /\ r.json
    THEN [ threw |-> FALSE, success |-> TRUE, responseTime |-> <<lat>>,
           data |-> r.body, error |-> "" ]
    ELSE [ threw |-> FALSE, success |-> TRUE, responseTime |-> <<lat>>,
           data |-> MockData.metrics, error |-> "" ]

\* checkHealth from the network's answer r on, lat being the measured
\* Date.now() difference.
checkHealth(r, lat) ==
  IF ~r.net
    THEN [ threw |-> FALSE, success |-> FALSE, responseTime |-> << >>,
           data |-> Null, error |-> "transport" ]
  ELSE IF r.ok
    THEN IF r.json
      THEN [ threw |-> FALSE, success |-> TRUE, responseTime |-> <<lat>>,
             data |-> r.body, error |-> "" ]
      ELSE [ threw |-> FALSE, success |-> FALSE, responseTime |-> << >>,
             data |-> Null, error |-> "json" ]
  ELSE [ threw |-> FALSE, success |-> FALSE, responseTime |-> << >>,
         data |-> Null, error |-> "Health check failed" ]

\* Round-trip times a probe may measure.
Latencies == {0, 12}

\* -------------------------------------------------------- refresh functions

\* refreshOutcome without the try/catch around the render sink.
refreshOutcome_NoCatch(fn, fr, sinkThrows) ==
  IF fr.threw
    THEN [ stored |-> FALSE, rendered |-> FALSE, sinkThrew |-> FALSE,
           updated |-> FALSE, propagated |-> TRUE ]
    ELSE [ stored |-> fn # "health", rendered |-> TRUE, sinkThrew |-> sinkThrows,
           updated |-> ~sinkThrows, propagated |-> sinkThrows ]

\* refreshDashboard / refreshHealth / refreshConnections / refreshTools /
\* refreshLogs after the await of the fetch function, whose result is fr: the
\* cache write (refreshHealth has none), the render sink, updateLastUpdate,
\* all inside one try block whose catch logs and returns.
refreshOutcome(fn, fr, sinkThrows) ==
  IF fr.threw
    THEN [ stored |-> FALSE, rendered |-> FALSE, sinkThrew |-> FALSE,
           updated |-> FALSE, propagated |-> FALSE ]
    ELSE [ stored |-> fn # "health", rendered |-> TRUE, sinkThrew |-> sinkThrows,
           updated |-> ~sinkThrows, propagated |-> FALSE ]

\* AppState.<kind>Data = value, for the refresh function fn.
StoreCache(fn, value) ==
  /\ metricsData' = IF fn = "dashboard" THEN value ELSE metricsData
  /\ connectionsData' = IF fn = "connections" THEN value ELSE connectionsData
  /\ toolsData' = IF fn = "tools" THEN value ELSE toolsData
  /\ logsData' = IF fn = "logs" THEN value ELSE logsData

\* updateLastUpdate: AppState.lastUpdate = new Date().
updateLastUpdate == lastUpdate' = "date"

\* The part of a refresh function that follows its await, in the task e0.
\* Whether the render sink throws is the DOM's choice.
Complete(e0, fn, fr) ==
  \E sinkThrows \in BOOLEAN :
  LET out == refreshOutcome(fn, fr, sinkThrows) IN
  /\ IF out.stored THEN StoreCache(fn, fr.value) ELSE UNCHANGED cache
  /\ IF out.updated THEN updateLastUpdate ELSE UNCHANGED lastUpdate
  /\ ev' = [ e0 EXCEPT !.fn = fn, !.completed = TRUE,
                       !.returned = IF fr.threw THEN Null ELSE fr.value,
                       !.fetchThrew = fr.threw, !.stored = out.stored,
                       !.rendered = out.rendered, !.sinkThrew = out.sinkThrew,
                       !.propagated = out.propagated, !.updated = out.updated ]

\* A call of the refresh function fn in the task e0, demo being the demoMode
\* it reads.  A mock value resolves the await within the same task; a network
\* request leaves the function suspended in inflight.
RunRefresh(e0, fn, demo) ==
  LET f == fetchStart(KindOf(fn), demo) IN
  IF f.suspended
    THEN /\ BagCardinality(inflight) < MaxInFlight
         /\ inflight' = inflight (+) SetToBag({ [ fn |-> fn, init |-> e0.op = "initializeApp" ] })
         /\ UNCHANGED <<cache, lastUpdate>>
         /\ ev' = [ e0 EXCEPT !.fn = fn, !.demo = demo, !.issued = f.issued ]
    ELSE /\ UNCHANGED inflight
         /\ Complete([ e0 EXCEPT !.demo = demo ], fn,
                     [ threw |-> FALSE, value |-> f.returned ])

\* refreshCurrentSection with a default case that refreshes the dashboard.
refreshCurrentSection_DefaultDashboard(e0, section, demo) ==
  RunRefresh(e0, IF section \in RefreshFns THEN section ELSE "dashboard", demo)

\* refreshCurrentSection with AppState.currentSection = section.
refreshCurrentSection(e0, section, demo) ==
  IF section \in RefreshFns
    THEN RunRefresh(e0, section, demo)
    ELSE /\ UNCHANGED <<inflight, cache, lastUpdate>>
         /\ ev' = e0

\* ---------------------------------------------------------------- scheduler

\* clearInterval(id).
clearInterval(ts, id) == { t \in ts : t.id # id }

\* The id setInterval returns: one no live timer and no handle holds.
FreshIds(ts) == (1 .. MaxTimers) \ ({ t.id : t \in ts } \cup {refreshInterval})

\* startAutoRefresh without the clearInterval of the timer already running.
startAutoRefresh_NoClear(auto, rate, section) ==
  IF auto
    THEN /\ FreshIds(timers) # {}
         /\ LET id == CHOOSE i \in FreshIds(timers) :
                        \A j \in FreshIds(timers) : i <= j
            IN /\ timers' = timers \cup
                   { [ id |-> id, period |-> rate, scheduledIn |-> section ] }
               /\ refreshInterval' = id
    ELSE UNCHANGED <<timers, refreshInterval>>

\* startAutoRefresh, with AppState.autoRefresh = auto, AppState.refreshRate =
\* rate and AppState.currentSection = section at the call.
startAutoRefresh(auto, rate, section) ==
  LET cleared == IF refreshInterval # 0
                   THEN clearInterval(timers, refreshInterval)
                   ELSE timers
  IN IF auto
       THEN /\ FreshIds(cleared) # {}
            /\ LET id == CHOOSE i \in FreshIds(cleared) :
                           \A j \in FreshIds(cleared) : i <= j
               IN /\ timers' = cleared \cup
                      { [ id |-> id, period |-> rate, scheduledIn |-> section ] }
                  /\ refreshInterval' = id
       ELSE /\ timers' = cleared
            /\ UNCHANGED refreshInterval

\* stopAutoRefresh dropping the handle without clearInterval.
stopAutoRefresh_NoClear ==
  /\ refreshInterval' = 0
  /\ UNCHANGED timers

\* stopAutoRefresh.
stopAutoRefresh ==
  IF refreshInterval # 0
    THEN /\ timers' = clearInterval(timers, refreshInterval)
         /\ refreshInterval' = 0
    ELSE UNCHANGED <<timers, refreshInterval>>

\* tickSection with the section captured when the timer was set.
tickSection_Captured(t) == t.scheduledIn

\* The section the timer's callback refreshes: the arrow function calls
\* refreshCurrentSection(), which reads AppState.currentSection when it runs.
tickSection(t) == currentSection

\* ------------------------------------------------------------------ actions

RemoveAt(seq, i) == SubSeq(seq, 1, i - 1) \o SubSeq(seq, i + 1, Len(seq))

Task(op) == [ NoEvent EXCEPT !.op = op, !.before = autoRefresh ]

\* initializeApp: the listeners are registered, the dashboard is refreshed
\* and, once that await returns normally, auto-refresh is started.
initializeApp ==
  /\ pc = "boot"
  /\ pc' = "ready"
  /\ RunRefresh(Task("initializeApp"), "dashboard", demoMode)
  /\ IF fetchStart("metrics", demoMode).suspended \/ ev'.propagated
       THEN UNCHANGED <<timers, refreshInterval>>
       ELSE startAutoRefresh(autoRefresh, refreshRate, currentSection)
  /\ UNCHANGED <<config, probes>>
  /\ UNCHANGED <<filters, verified>>

\* The callback of the live interval timer t.
Tick(t) ==
  /\ pc = "ready"
  /\ t \in timers
  /\ refreshCurrentSection([ Task("tick") EXCEPT !.scheduledIn = t.scheduledIn ],
                           tickSection(t), demoMode)
  /\ UNCHANGED <<pc, config, timers, refreshInterval, probes>>
  /\ UNCHANGED <<filters, verified>>

\* A click on a navigation item: switchSection(section).
switchSection(section) ==
  /\ pc = "ready"
  /\ currentSection' = section
  /\ refreshCurrentSection(Task("switchSection"), section, demoMode)
  /\ UNCHANGED <<pc, apiEndpoint, refreshRate, autoRefresh, demoMode,
                 timers, refreshInterval, probes>>
  /\ UNCHANGED <<filters, verified>>

\* The refresh buttons: refreshDashboard and refreshHealth as click listeners.
RefreshButton(fn) ==
  /\ pc = "ready"
  /\ fn \in {"dashboard", "health"}
  /\ RunRefresh(Task("refreshButton"), fn, demoMode)
  /\ UNCHANGED <<pc, config, timers, refreshInterval, probes>>
  /\ UNCHANGED <<filters, verified>>

\* The response r to the request of the suspended refresh function c.
FetchResponse(c, r) ==
  /\ BagIn(c, inflight)
  /\ r \in Responses(KindOf(c.fn))
  /\ inflight' = inflight (-) SetToBag({c})
  /\ Complete([ Task("response") EXCEPT !.response = <<r>> ], c.fn,
              fetchResume(KindOf(c.fn), r))
  /\ IF c.init /\ ~ev'.propagated
       THEN startAutoRefresh(autoRefresh, refreshRate, currentSection)
       ELSE UNCHANGED <<timers, refreshInterval>>
  /\ UNCHANGED <<pc, config, probes>>
  /\ UNCHANGED <<filters, verified>>

\* The click listener of testConnection up to await checkHealth(): the
\* candidate endpoint is written to AppState.apiEndpoint and checkHealth
\* sends its request there.
testConnection(input) ==
  /\ pc = "ready"
  /\ Len(probes) < MaxProbes
  /\ LET endpoint == IF input # "" THEN input ELSE apiEndpoint IN
     /\ probes' = Append(probes, [ endpoint |-> endpoint,
                                   originalEndpoint |-> apiEndpoint ])
     /\ apiEndpoint' = endpoint
     /\ ev' = [ Task("testConnection") EXCEPT
                  !.issued = { [ kind |-> "health", endpoint |-> endpoint ] } ]
  /\ UNCHANGED <<pc, refreshRate, autoRefresh, demoMode, currentSection,
                 refreshInterval, lastUpdate, cache, timers, inflight>>
  /\ UNCHANGED <<filters, verified>>

\* The rest of that listener, from the answer to the probe's request on.
ProbeResponse(i, r, lat) ==
  /\ i \in 1 .. Len(probes)
  /\ LET result == checkHealth(r, lat) IN
     /\ apiEndpoint' = IF result.threw \/ result.success
                         THEN apiEndpoint
                         ELSE probes[i].originalEndpoint
     /\ ev' = [ Task("probeResponse") EXCEPT !.response = <<r>>, !.probe = <<result>> ]
  /\ probes' = RemoveAt(probes, i)
  /\ UNCHANGED <<pc, refreshRate, autoRefresh, demoMode, currentSection,
                 refreshInterval, lastUpdate, cache, timers, inflight>>
  /\ UNCHANGED filters
  /\ verified' = IF checkHealth(r, lat).success
                   THEN verified \cup {probes[i].endpoint}
                   ELSE verified

\* refreshRateSelect without the restart of the running timer.
refreshRateSelect_NoRestart(value) ==
  /\ pc = "ready"
  /\ refreshRate' = parseInt(value)
  /\ ev' = Task("refreshRateSelect")
  /\ UNCHANGED <<pc, apiEndpoint, autoRefresh, demoMode, currentSection,
                 lastUpdate, cache, inflight, probes, timers, refreshInterval>>
  /\ UNCHANGED <<filters, verified>>

\* The change listener of refreshRateSelect.
refreshRateSelect(value) ==
  /\ pc = "ready"
  /\ refreshRate' = parseInt(value)
  /\ IF autoRefresh
       THEN startAutoRefresh(autoRefresh, refreshRate', currentSection)
       ELSE UNCHANGED <<timers, refreshInterval>>
  /\ ev' = Task("refreshRateSelect")
  /\ UNCHANGED <<pc, apiEndpoint, autoRefresh, demoMode, currentSection,
                 lastUpdate, cache, inflight, probes>>
  /\ UNCHANGED <<filters, verified>>

\* The change listener of autoRefreshToggle.
autoRefreshToggle(checked) ==
  /\ pc = "ready"
  /\ autoRefresh' = checked
  /\ IF checked
       THEN startAutoRefresh(checked, refreshRate, currentSection)
       ELSE stopAutoRefresh
  /\ ev' = Task("autoRefreshToggle")
  /\ UNCHANGED <<pc, apiEndpoint, refreshRate, demoMode, currentSection,
                 lastUpdate, cache, inflight, probes>>
  /\ UNCHANGED <<filters, verified>>

\* The change listener of demoModeToggle.
demoModeToggle(checked) ==
  /\ pc = "ready"
  /\ demoMode' = checked
  /\ refreshCurrentSection(Task("demoModeToggle"), currentSection, checked)
  /\ UNCHANGED <<pc, apiEndpoint, refreshRate, autoRefresh, currentSection,
                 timers, refreshInterval, probes>>
  /\ UNCHANGED <<filters, verified>>

\* The values the filter selects and the sort select offer, and what the
\* user types into the search input.
ConnectionFilters == {"all", "connected", "disconnected"}
SortKeys == {"calls", "name", "success"}
LogLevels == {"all", "INFO", "WARNING", "ERROR"}
SearchTerms == {"", "response", "RESPONSE", "redis", "time", "xyz"}

\* The change listener of connectionFilter.
connectionFilterChange(value) ==
  /\ pc = "ready"
  /\ connectionFilter' = value
  /\ LET out == updateConnectionsTable(connectionsData, value) IN
     ev' = [ Task("connectionFilter") EXCEPT
               !.shown = out.shown, !.durations = out.durations ]
  /\ UNCHANGED <<pc, config, refreshInterval, lastUpdate, cache, timers,
                 inflight, probes, toolsSortBy, logLevelFilter, logSearch,
                 verified>>

\* The change listener of toolsSortBy: the array AppState.toolsData refers
\* to is the one updateToolsGrid is handed.
toolsSortByChange(value) ==
  /\ pc = "ready"
  /\ toolsSortBy' = value
  /\ LET out == updateToolsGrid(toolsData, value) IN
     /\ toolsData' = out.tools
     /\ ev' = [ Task("toolsSortBy") EXCEPT !.shown = out.shown ]
  /\ UNCHANGED <<pc, config, refreshInterval, lastUpdate, metricsData,
                 connectionsData, logsData, timers, inflight, probes,
                 connectionFilter, logLevelFilter, logSearch,
                 verified>>

\* The input listener of logSearch.
logSearchInput(value) ==
  /\ pc = "ready"
  /\ logSearch' = value
  /\ ev' = [ Task("logSearch") EXCEPT
               !.shown = updateLogsContainer(logsData, logLevelFilter, value) ]
  /\ UNCHANGED <<pc, config, refreshInterval, lastUpdate, cache, timers,
                 inflight, probes, connectionFilter, toolsSortBy, logLevelFilter,
                 verified>>

\* The change listener of logLevelFilter.
logLevelFilterChange(value) ==
  /\ pc = "ready"
  /\ logLevelFilter' = value
  /\ ev' = [ Task("logLevelFilter") EXCEPT
               !.shown = updateLogsContainer(logsData, value, logSearch) ]
  /\ UNCHANGED <<pc, config, refreshInterval, lastUpdate, cache, timers,
                 inflight, probes, connectionFilter, toolsSortBy, logSearch,
                 verified>>

\* The click listener of clearLogs.
clearLogs ==
  /\ pc = "ready"
  /\ logsData' = << >>
  /\ ev' = [ Task("clearLogs") EXCEPT
               !.shown = updateLogsContainer(<< >>, logLevelFilter, logSearch) ]
  /\ UNCHANGED <<pc, config, refreshInterval, lastUpdate, metricsData,
                 connectionsData, toolsData, timers, inflight, probes, filters,
                 verified>>

Next ==
  \/ initializeApp
  \/ \E t \in timers : Tick(t)
  \/ \E s \in Sections : switchSection(s)
  \/ \E fn \in {"dashboard", "health"} : RefreshButton(fn)
  \/ \E c \in BagToSet(inflight) :
       \E r \in Responses(KindOf(c.fn)) : FetchResponse(c, r)
  \/ \E input \in Endpoints \cup {""} : testConnection(input)
  \/ \E i \in 1 .. Len(probes), r \in Responses("health"), lat \in Latencies :
       ProbeResponse(i, r, lat)
  \/ \E value \in RateOptions : refreshRateSelect(value)
  \/ \E checked \in BOOLEAN : autoRefreshToggle(checked)
  \/ \E checked \in BOOLEAN : demoModeToggle(checked)
  \/ \E value \in ConnectionFilters : connectionFilterChange(value)
  \/ \E value \in SortKeys : toolsSortByChange(value)
  \/ \E value \in SearchTerms : logSearchInput(value)
  \/ \E value \in LogLevels : logLevelFilterChange(value)
  \/ clearLogs

Spec == Init /\ [][Next]_vars

\* The scheduler's scenario: demo mode stays on and the user navigates,
\* changes the refresh rate and toggles auto-refresh while the timer ticks.
SchedNext ==
  \/ initializeApp
  \/ \E t \in timers : Tick(t)
  \/ \E s \in Sections : switchSection(s)
  \/ \E value \in RateOptions : refreshRateSelect(value)
  \/ \E checked \in BOOLEAN : autoRefreshToggle(checked)

SchedSpec == Init /\ [][SchedNext]_vars

\* The data scenario: the user navigates, refreshes the section shown by
\* hand and toggles demo mode while the timer ticks and the network answers;
\* the scheduler's settings and the endpoint are left as constructed.
FetchNext ==
  \/ initializeApp
  \/ \E t \in timers : Tick(t)
  \/ \E s \in Sections : switchSection(s)
  \/ \E fn \in {"dashboard", "health"} \cap {currentSection} : RefreshButton(fn)
  \/ \E c \in BagToSet(inflight) :
       \E r \in Responses(KindOf(c.fn)) : FetchResponse(c, r)
  \/ \E checked \in BOOLEAN : demoModeToggle(checked)

FetchSpec == Init /\ [][FetchNext]_vars

\* The settings scenario: the user tests endpoints and toggles demo mode
\* while the timer refreshes the dashboard and the network answers.
ProbeNext ==
  \/ initializeApp
  \/ \E t \in timers : Tick(t)
  \/ \E c \in BagToSet(inflight) :
       \E r \in Responses(KindOf(c.fn)) : FetchResponse(c, r)
  \/ \E input \in Endpoints \cup {""} : testConnection(input)
  \/ \E i \in 1 .. Len(probes), r \in Responses("health"), lat \in Latencies :
       ProbeResponse(i, r, lat)
  \/ \E checked \in BOOLEAN : demoModeToggle(checked)

ProbeSpec == Init /\ [][ProbeNext]_vars

\* ------------------------------------------------- the filter/sort pipeline

\* The longest collection a backend answers with.
MaxLen == 3

\* The longest connection the duration cell is checked for, in seconds.
MaxSeconds == 7325

\* The lists of at most n distinct entries of pool.
RECURSIVE ListsOver(_, _)
ListsOver(pool, n) ==
  IF n = 0 THEN { << >> }
  ELSE LET shorter == ListsOver(pool, n - 1) IN
       shorter \cup
       { Append(p[1], p[2]) :
           p \in { q \in shorter \X pool :
                     \A i \in 1 .. Len(q[1]) : q[1][i] # q[2] } }

\* Entries a backend may list: the mock ones, and others that tie on a sort
\* key, differ in the case of a name or repeat a name.
ConnectionPool ==
  { MockData.connections[i] : i \in 1 .. 3 } \cup
  { [ id |-> "conn_101", duration_seconds |-> 125, status |-> "connected" ] }

ToolPool ==
  { MockData.tools[i] : i \in 1 .. 2 } \cup
  { [ name |-> "b", call_count |-> 5, success_rate |-> 1000 ],
    [ name |-> "a", call_count |-> 10, success_rate |-> 900 ],
    [ name |-> "B", call_count |-> 10, success_rate |-> 1000 ],
    [ name |-> "a", call_count |-> 5, success_rate |-> 900 ] }

LogPool ==
  { MockData.logs[i] : i \in 1 .. 4 } \cup
  { [ level |-> "ERROR", message |-> "Upstream timeout" ] }

\* The application some time after start-up, showing a data section whose
\* collection the last response stored: demo mode was switched off, the
\* user went to the section and the backend answered with data.
Showing(section, data) ==
  /\ pc = "ready"
  /\ apiEndpoint = DefaultEndpoint
  /\ refreshRate = DefaultRefreshRate
  /\ autoRefresh = TRUE
  /\ demoMode = FALSE
  /\ currentSection = section
  /\ refreshInterval = 1
  /\ lastUpdate = "date"
  /\ metricsData = MockData.metrics
  /\ connectionsData = IF section = "connections" THEN data ELSE << >>
  /\ toolsData = IF section = "tools" THEN data ELSE << >>
  /\ logsData = IF section = "logs" THEN data ELSE << >>
  /\ timers = { [ id |-> 1, period |-> DefaultRefreshRate, scheduledIn |-> "dashboard" ] }
  /\ inflight = EmptyBag
  /\ probes = << >>
  /\ connectionFilter = "all"
  /\ toolsSortBy = "calls"
  /\ logLevelFilter = "all"
  /\ logSearch = ""
  /\ verified = {}
  /\ ev = NoEvent

PipelineInit ==
  \/ \E data \in ListsOver(ConnectionPool, MaxLen) : Showing("connections", data)
  \/ \E data \in ListsOver(ToolPool, MaxLen) : Showing("tools", data)
  \/ \E data \in ListsOver(LogPool, MaxLen) \cup {MockData.logs} : Showing("logs", data)

\* The user works the controls of the section shown.
PipelineNext ==
  \/ \E value \in ConnectionFilters :
       currentSection = "connections" /\ connectionFilterChange(value)
  \/ \E value \in SortKeys :
       currentSection = "tools" /\ toolsSortByChange(value)
  \/ \E value \in SearchTerms :
       currentSection = "logs" /\ logSearchInput(value)
  \/ \E value \in LogLevels :
       currentSection = "logs" /\ logLevelFilterChange(value)
  \/ currentSection = "logs" /\ clearLogs

PipelineSpec == PipelineInit /\ [][PipelineNext]_vars

\* The connections table over one connection of any duration up to
\* MaxSeconds.
DurationInit ==
  \E seconds \in 0 .. MaxSeconds :
    Showing("connections",
            << [ id |-> "conn_101", duration_seconds |-> seconds,
                 status |-> "connected" ] >>)

DurationNext == \E value \in ConnectionFilters : connectionFilterChange(value)

DurationSpec == DurationInit /\ [][DurationNext]_vars

\* ------------------------------------------------------------ the cadence

\* The cadence scenario: auto-refresh stays enabled and the timer is never
\* stopped, while the user moves between a metrics section, a collection
\* section and settings, toggles demo mode, and the network answers every
\* request in any way, failures included.
CadenceSections == {"dashboard", "logs", "settings"}

CadenceNext ==
  \/ initializeApp
  \/ \E t \in timers : Tick(t)
  \/ \E s \in CadenceSections : switchSection(s)
  \/ \E c \in BagToSet(inflight) :
       \E r \in Responses(KindOf(c.fn)) : FetchResponse(c, r)
  \/ \E checked \in BOOLEAN : demoModeToggle(checked)

\* What the browser guarantees: the page's load handler runs, a live
\* interval timer keeps firing (strong fairness, since in the model a tick
\* has to wait while MaxInFlight requests are pending), and every request
\* is answered or fails in the end.
CadenceFairness ==
  /\ WF_vars(initializeApp)
  /\ SF_vars(\E t \in timers : Tick(t))
  /\ \A fn \in RefreshFns :
       WF_vars(\E r \in Responses(KindOf(fn)) :
                 FetchResponse([ fn |-> fn, init |-> FALSE ], r))

CadenceSpec == Init /\ [][CadenceNext]_vars /\ CadenceFairness

\* ------------------------------------------------------------------ claims

\* The answers after which a fetch function has nothing to return from: a
\* transport failure, a non-success status, a body that does not parse.
FailedResponse(r) == ~r.net \/ ~r.ok \/ ~r.json

\* successful_requests + failed_requests <= total_requests, for a snapshot
\* held as null or as a one-element sequence.
CountsAddUp(m) ==
  \A i \in 1 .. Len(m) :
    m[i].successful_requests + m[i].failed_requests <= m[i].total_requests

\* C1: whatever the order of initializeApp, starts, stops, refresh-rate
\* changes and auto-refresh toggles, at most one interval timer is live, it is
\* the one AppState.refreshInterval holds, and a start with auto-refresh on
\* leaves exactly one.
C1_SingleTimer ==
  /\ Cardinality(timers) <= 1
  /\ \A t \in timers : t.id = refreshInterval
  /\ (ev.op \in {"refreshRateSelect", "autoRefreshToggle"} /\ autoRefresh)
       => Cardinality(timers) = 1

\* A start issued while the timer of an earlier start is still running.
C1_StartWhileRunning ==
  /\ ev.op = "autoRefreshToggle"
  /\ ev.before
  /\ autoRefresh
  /\ Cardinality(timers) = 1

\* C2: a fetch function resumed, with demo mode off, by a transport failure,
\* a non-success response or an unparsable body returns the mock value of its
\* resource and does not throw.
C2_FallbackOnFailure ==
  (ev.op = "response" /\ FailedResponse(ev.response[1]))
    => /\ ~ev.demo
       /\ ~ev.fetchThrew
       /\ ev.returned = MockData[KindOf(ev.fn)]

\* fetchLogs resumed by a success status whose body does not parse.
C2_UnparsableLogs ==
  /\ ev.op = "response"
  /\ ev.fn = "logs"
  /\ ev.response[1].ok
  /\ ~ev.response[1].json
  /\ ev.returned = MockData.logs

\* C3: a fetch function entered while demoMode is true returns the mock
\* value of its resource within the same task, sends no request, and returns
\* that same value on every call.
C3_DemoIsMock ==
  (ev.fn # "none" /\ ev.demo)
    => /\ ev.completed
       /\ ev.issued = {}
       /\ ~ev.fetchThrew
       /\ ev.returned = MockData[KindOf(ev.fn)]

\* A tick in demo mode on the tools section.
C3_DemoTickOnTools ==
  /\ ev.op = "tick"
  /\ ev.demo
  /\ ev.fn = "tools"
  /\ ev.returned = MockData.tools

\* C4: a timer tick enters the refresh function of the section that is
\* current when it fires, or none when that section is settings.
C4_TickUsesCurrentSection ==
  ev.op = "tick"
    => ev.fn = IF currentSection \in RefreshFns THEN currentSection ELSE "none"

\* A tick that refreshed a section other than the one its timer was set in.
C4_TickAfterNavigation ==
  /\ ev.op = "tick"
  /\ ev.fn = currentSection
  /\ ev.scheduledIn # currentSection

\* C5: a task in which a render sink throws leaves the refresh function
\* without rejecting to its caller, cancels no timer and, with auto-refresh
\* on, leaves a timer live.
C5_SinkFailureContained ==
  [][ev'.sinkThrew
       => /\ ~ev'.propagated
          /\ timers \subseteq timers'
          /\ autoRefresh' => timers' # {}]_vars

\* A tick whose render sink threw, with the timer still live.
C5_TickSinkThrew ==
  /\ ev.op = "tick"
  /\ ev.sinkThrew
  /\ ~ev.updated
  /\ timers # {}

\* C6: a live timer's period is the current refreshRate, and once the page is
\* initialized a timer is live whenever auto-refresh is on.
C6_PeriodIsRefreshRate ==
  /\ \A t \in timers : t.period = refreshRate
  /\ (pc = "ready" /\ autoRefresh) => timers # {}

\* Auto-refresh switched back on: one timer, at the refresh rate.
C6_ToggledBackOn ==
  /\ ev.op = "autoRefreshToggle"
  /\ ~ev.before
  /\ autoRefresh
  /\ \E t \in timers : timers = {t} /\ t.period = refreshRate

\* C7: with autoRefresh false no interval timer is live.
C7_DisabledMeansStopped == ~autoRefresh => timers = {}

\* Auto-refresh switched off while its timer was running.
C7_SwitchedOff ==
  /\ ev.op = "autoRefreshToggle"
  /\ ev.before
  /\ ~autoRefresh
  /\ timers = {}

\* C8 as stated: checkHealth does not throw and reports success exactly when
\* the response has a success status.
C8_SuccessIffOkStatus ==
  ev.op = "probeResponse"
    => /\ ~ev.probe[1].threw
       /\ ev.probe[1].success <=> (ev.response[1].net /\ ev.response[1].ok)

\* C8 amended: checkHealth does not throw; it reports success, with the
\* measured time and the parsed body, exactly when the response has a success
\* status and a body that parses; otherwise it reports failure with an error
\* and no data, never the mock value.
C8_SuccessIffOkAndParsed ==
  ev.op = "probeResponse"
    => LET r == ev.response[1]
           p == ev.probe[1]
       IN /\ ~p.threw
          /\ p.success <=> (r.net /\ r.ok /\ r.json)
          /\ p.success => (p.responseTime # << >> /\ p.data = r.body /\ p.error = "")
          /\ ~p.success => (p.responseTime = << >> /\ p.data = Null /\ p.error # "")

\* A probe answered with a success status and an unparsable body.
C8_UnparsableProbe ==
  /\ ev.op = "probeResponse"
  /\ ev.response[1].ok
  /\ ~ev.response[1].json
  /\ ~ev.probe[1].success

C10_AcceptedCountsAddUp ==
  /\ CountsAddUp(metricsData)
  /\ (ev.rendered /\ ev.fn \in {"dashboard", "health"}) => CountsAddUp(ev.returned)

\* The entries of a list, and where an entry stands in a list that holds it
\* once.
Range(list) == { list[i] : i \in 1 .. Len(list) }
Pos(list, x) == CHOOSE i \in 1 .. Len(list) : list[i] = x

\* out holds exactly the entries of in that pass, each once, in the order
\* they have in in (the entries of in being distinct).
KeepsInOrder(out, in, Passes(_)) ==
  /\ Range(out) = { x \in Range(in) : Passes(x) }
  /\ Len(out) = Cardinality(Range(out))
  /\ \A i, j \in 1 .. Len(out) : i < j => Pos(in, out[i]) < Pos(in, out[j])

\* C11: the connection filter's change listener shows, in their original
\* order, exactly the cached connections whose status is the filter's value,
\* or all of them under 'all'; over the three sample connections the filter
\* 'connected' shows conn_001 and conn_003.
C11_ConnectionsFiltered ==
  ev.op = "connectionFilter" =>
    /\ KeepsInOrder(ev.shown, connectionsData,
                    LAMBDA conn : connectionFilter = "all" \/ conn.status = connectionFilter)
    /\ (connectionsData = MockData.connections /\ connectionFilter = "connected") =>
         [ i \in 1 .. Len(ev.shown) |-> ev.shown[i].id ] = << "conn_001", "conn_003" >>

\* C11 witness: the sample connections are shown under the filter
\* 'connected', which drops one of them.
C11_SampleConnected ==
  /\ ev.op = "connectionFilter"
  /\ connectionsData = MockData.connections
  /\ connectionFilter = "connected"
  /\ Len(ev.shown) = 2

\* Two tools tie on the sort key.
Tie(sortBy, a, b) ==
  CASE sortBy = "calls" -> a.call_count = b.call_count
    [] sortBy = "name" -> a.name = b.name
    [] sortBy = "success" -> a.success_rate = b.success_rate

\* Tool a may stand before tool b under the sort key: names in the order of
\* their collation, the numeric keys from high to low.
InKeyOrder(sortBy, a, b) ==
  CASE sortBy = "calls" -> a.call_count >= b.call_count
    [] sortBy = "name" -> localeCompare(Chars[a.name], Chars[b.name]) <= 0
    [] sortBy = "success" -> a.success_rate >= b.success_rate

SameLetter(c, d) ==
  \/ c = d
  \/ c \in DOMAIN UpperToLower /\ UpperToLower[c] = d
  \/ d \in DOMAIN UpperToLower /\ UpperToLower[d] = c

\* term occurs in message when case is ignored; the empty term occurs in
\* every message.
ContainsIgnoringCase(message, term) ==
  \E offset \in 0 .. Len(message) :
    /\ offset + Len(term) <= Len(message)
    /\ \A k \in 1 .. Len(term) : SameLetter(message[offset + k], term[k])

\* C13: the log listeners show, in their original order, exactly the cached
\* logs that pass the level filter and whose message contains the search
\* term when case is ignored; over the four sample logs the level 'WARNING'
\* with the term 'response' shows the one entry on the high response time.
C13_LogsFiltered ==
  ev.op \in {"logSearch", "logLevelFilter"} =>
    /\ KeepsInOrder(ev.shown, logsData,
                    LAMBDA log :
                      /\ logLevelFilter = "all" \/ log.level = logLevelFilter
                      /\ ContainsIgnoringCase(Chars[log.message], Chars[logSearch]))
    /\ (logsData = MockData.logs /\ logLevelFilter = "WARNING" /\ logSearch = "response") =>
         ev.shown = << [ level |-> "WARNING",
                         message |-> "High response time detected: 1200ms" ] >>

\* C13 witness: the sample logs are searched for 'response' under the level
\* 'WARNING' and one entry is left.
C13_SampleWarningResponse ==
  /\ ev.op = "logSearch"
  /\ logsData = MockData.logs
  /\ logLevelFilter = "WARNING"
  /\ logSearch = "response"
  /\ Len(ev.shown) = 1

\* C14: the duration cell of a connection of s seconds reads '<h>h <m>m'
\* from 3600 on, '<m>m <sec>s' from 60 to 3599 and '<sec>s' below 60, with
\* h = s div 3600, m = (s mod 3600) div 60 and sec = s mod 60: 3600 reads
\* '1h 0m', 125 '2m 5s', 45 '45s' and 0 '0s'.
C14_DurationFormatted ==
  (ev.op = "connectionFilter" /\ Len(ev.durations) = 1) =>
    LET s == ev.shown[1].duration_seconds
        d == ev.durations[1]
        h == NumberToString(s \div 3600)
        m == NumberToString((s % 3600) \div 60)
        sec == NumberToString(s % 60)
    IN /\ s >= 3600 => d = h \o << "h", " " >> \o m \o << "m" >>
       /\ (60 <= s /\ s < 3600) => d = m \o << "m", " " >> \o sec \o << "s" >>
       /\ s < 60 => d = sec \o << "s" >>
       /\ s = 3600 => d = << "1", "h", " ", "0", "m" >>
       /\ s = 125 => d = << "2", "m", " ", "5", "s" >>
       /\ s = 45 => d = << "4", "5", "s" >>
       /\ s = 0 => d = << "0", "s" >>

\* C14 witness: a connection of exactly one hour is shown.
C14_OneHour ==
  /\ ev.op = "connectionFilter"
  /\ Len(ev.durations) = 1
  /\ ev.shown[1].duration_seconds = 3600
  /\ ev.durations[1] = << "1", "h", " ", "0", "m" >>

\* The cache entry that holds a resource.
CacheOf(kind) ==
  CASE kind = "metrics" -> metricsData
    [] kind = "connections" -> connectionsData
    [] kind = "tools" -> toolsData
    [] kind = "logs" -> logsData

\* C15: in a dispatch cycle the cache entry is written before the render
\* sink is called and the last-updated time is advanced only after the sink
\* has returned normally: a cycle that called its sink has written its cache
\* entry, also when the sink threw, and a cycle that advanced the time has
\* called its sink and seen it return.
C15_StoreThenRenderThenUpdate ==
  ev.completed =>
    /\ ev.rendered => ev.stored
    /\ ev.updated => ev.rendered /\ ~ev.sinkThrew
    /\ ev.sinkThrew => ~ev.updated

\* C16: a completed dispatch cycle of any data section, health among them,
\* leaves the cache entry of its resource equal to what the cycle fetched.
C16_CycleStoresFetched ==
  (ev.completed /\ ~ev.fetchThrew) => CacheOf(KindOf(ev.fn)) = ev.returned

\* C17: a dispatch by navigation, tick or demo toggle while the section is
\* settings sends no request, enters no refresh function and leaves the
\* cache, the last-updated time and the scheduler as they were.
C17_SettingsDispatchIsNoOp ==
  [][ (ev'.op \in {"switchSection", "tick", "demoModeToggle"}
         /\ currentSection' = "settings") =>
        /\ ev'.fn = "none"
        /\ ev'.issued = {}
        /\ UNCHANGED <<cache, lastUpdate, inflight, timers, refreshInterval,
                       refreshRate, autoRefresh>> ]_vars

\* C17 witness: the timer ticks while settings is shown, in live mode.
C17_TickOnSettings ==
  /\ ev.op = "tick"
  /\ currentSection = "settings"
  /\ ~demoMode
  /\ ev.fn = "none"

\* C18: the filter and sort listeners re-render from the cache and leave it
\* alone: after a change of the connection filter, the tools sort, the log
\* level or the log search every cached collection holds the same entries
\* in the same order as before.
C18_PipelineLeavesCache ==
  [][ ev'.op \in {"connectionFilter", "toolsSortBy", "logLevelFilter", "logSearch"} =>
        cache' = cache ]_vars

\* C18 witness: a sort showed the tools in another order than the cache
\* holds them in.
C18_ShownOrderDiffers ==
  /\ ev.op = "toolsSortBy"
  /\ Len(toolsData) > 1
  /\ ev.shown # toolsData

\* C19: of two cycles of one section that overlap, the one whose response
\* comes last decides: when a cycle has completed while another of the same
\* section was in flight and that one's response follows, the sink is called
\* with and the cache entry holds what this last cycle fetched.
C19_LastCompletionWins ==
  [][ (/\ ev.completed
       /\ BagIn([ fn |-> ev.fn, init |-> FALSE ], inflight)
       /\ ev'.op = "response"
       /\ ev'.fn = ev.fn) =>
        /\ ev'.rendered
        /\ CacheOf(KindOf(ev.fn))' = ev'.returned ]_vars

\* C20: a response that arrives after the user has left its section still
\* completes its cycle: it writes the cache entry of the resource it fetched
\* with what it fetched, calls that section's sink and leaves every other
\* cache entry alone.
C20_LateResponseWritesOwnEntry ==
  [][ (ev'.op = "response" /\ ev'.fn # currentSection') =>
        /\ ev'.completed /\ ev'.rendered
        /\ \A kind \in {"metrics", "connections", "tools", "logs"} :
             CacheOf(kind)' = IF kind = KindOf(ev'.fn) THEN ev'.returned
                                                        ELSE CacheOf(kind) ]_vars

\* C21: with auto-refresh enabled and the timer never stopped, the timer's
\* dispatch runs again and again, and every refresh function suspended at a
\* request runs to its end once the request is answered, whatever the
\* answer: no failure of the network stops the cadence.
C21_CadenceContinues ==
  /\ []<>(ev.op = "tick")
  /\ \A fn \in RefreshFns :
       BagIn([ fn |-> fn, init |-> FALSE ], inflight) ~>
         (ev.op = "response" /\ ev.fn = fn /\ ev.completed /\ ~ev.propagated)

\* C21 witness: a request has failed, its refresh function has run to its
\* end on the fallback and the timer is still live.
C21_FailedFetchCompleted ==
  /\ ev.op = "response"
  /\ FailedResponse(ev.response[1])
  /\ ev.completed
  /\ autoRefresh /\ timers # {}

\* C22: whenever no probe is in flight the configured endpoint is the
\* initial one or one a probe of which has returned success, however the
\* probes of testConnection interleave.
C22_IdleEndpointVerified ==
  probes = << >> => apiEndpoint \in {DefaultEndpoint} \cup verified

\* C23: every request for metrics, connections, tools or logs goes to the
\* initial endpoint or to one a probe of which has already returned
\* success, also when its cycle starts while a probe is in flight.
C23_DataRequestsToVerified ==
  \A q \in ev.issued :
    q.kind # "health" => q.endpoint \in {DefaultEndpoint} \cup verified

\* C24: while demoMode is true, whatever a cycle writes to the cache or
\* hands to its render sink is the mock value of its resource, also when
\* the cycle's request was sent before demo mode was switched on.
C24_DemoShowsOnlyMock ==
  (demoMode /\ ev.completed /\ (ev.stored \/ ev.rendered)) =>
    ev.returned = MockData[KindOf(ev.fn)]

====
